---------------------------- MODULE Spec2Model ----------------------------
(***************************************************************************)
(* A model of tmui.py, the terminal dashboard for a Meshtastic mesh:       *)
(* the table-row parser, the bounded per-user utilization series, the      *)
(* persistent node ledger (NodeHistory) and the poll loop of main.         *)
(*                                                                         *)
(* Text is modelled glyph by glyph: a Python str is a sequence of          *)
(* one-glyph strings.  TLA+ source is ASCII, so the non-ASCII glyphs of    *)
(* the collector's table are written by stand-ins:                         *)
(*    "|"     U+2502, the column separator the parser splits on            *)
(*    "<TL>"  U+2552   "<TR>" U+2555   "<BL>" U+2558   "<BR>" U+255B       *)
(*    "<ML>"  U+255E   "<MR>" U+2561   (the six glyphs the caller filters) *)
(*    "<RL>"  U+251C   "<RR>" U+2524   "<X>"  U+253C   (row separators)    *)
(*    "="     U+2550   "-"    U+2500   (horizontal rules)                  *)
(***************************************************************************)
EXTENDS Integers, Sequences, FiniteSets, TLC

VARIABLES
    pc,               \* position of the process in main        
    now,              \* datetime.now(), in ticks
    cycle,            \* poll cycles started so far (bounded by MaxCycles)
    file,             \* ~/.tmui/node_history.json: absent, or its JSON tokens
    seen_nodes,       \* NodeHistory.seen_nodes, a Python value
    channel_history,  \* the module-level dict user -> deque(maxlen=HISTORY_LENGTH)
    nodes,            \* main's local "nodes" of the current cycle
    idx,              \* how many of nodes the "for node in nodes" loop has upserted
    collector,        \* how this cycle's collector invocation ended
    fault,            \* the exception main's handler is reporting, or "none"
    key,              \* the last value stdscr.getch() returned
    frame,            \* what the last draw_graph computed
    row,              \* input of a stand-alone parse_table_row call
    result,           \* its outcome
    polled,           \* history: the node lists run_meshtastic_command has
                      \* returned in this run, one per cycle
    durable           \* history: <<identifier, first_seen>> of every entry
                      \* for which an update_node call has returned

vars == <<pc, now, cycle, file, seen_nodes, channel_history, nodes, idx,
          collector, fault, key, frame, row, result,
         polled, durable>>

(***************************************************************************)
(* Bounds of the model.                                                    *)
(***************************************************************************)
MaxCycles == 3
MaxFields == 17
MaxAppends == 62
MaxCalls == 4

(***************************************************************************)
(* Program constants.                                                      *)
(***************************************************************************)
HISTORY_LENGTH == 60
MinColumns == 15
PaletteSize == 6

NaN == -1        \* the float nan; every other modelled float is a natural

----------------------------------------------------------------------------
(***************************************************************************)
(* Python str operations, on glyph sequences.                              *)
(***************************************************************************)
SEP == "|"
Whitespace == {" ", "\t"}
BorderGlyphs == {"<TL>", "<TR>", "<BL>", "<BR>", "<ML>", "<MR>"}

\* str.split(sep) for a one-glyph separator: the texts between consecutive
\* separators, one more field than there are separators.
split(s, sep) ==
    LET at == {i \in 1..Len(s) : s[i] = sep}
        n == Cardinality(at)
        \* the position of separator number k; 0 and Len(s) + 1 bracket them
        pos(k) == IF k = 0 THEN 0
                  ELSE IF k = n + 1 THEN Len(s) + 1
                  ELSE CHOOSE i \in at : Cardinality({j \in at : j <= i}) = k
    IN  [k \in 1..(n + 1) |-> SubSeq(s, pos(k - 1) + 1, pos(k) - 1)]

RECURSIVE lstrip(_)
lstrip(s) ==
    IF s # <<>> /\ Head(s) \in Whitespace THEN lstrip(Tail(s)) ELSE s

RECURSIVE rstrip(_, _)
rstrip(s, chars) ==
    IF s # <<>> /\ s[Len(s)] \in chars
    THEN rstrip(SubSeq(s, 1, Len(s) - 1), chars)
    ELSE s

strip(s) == rstrip(lstrip(s), Whitespace)

\* "x in line" for a one-glyph x.
Contains(line, glyph) == \E i \in 1..Len(line) : line[i] = glyph

----------------------------------------------------------------------------
(***************************************************************************)
(* Python values.  Every value carries its type in t.  A str is "str" with *)
(* its glyphs; a str that is a key written literally in the program        *)
(* ('first_seen', 'user', ...) is "name" with the literal.  A dict is the  *)
(* sequence of its items in insertion order, which is the order Python     *)
(* iterates and json.dump writes them in.                                  *)
(***************************************************************************)
PyStr(glyphs) == [t |-> "str", v |-> glyphs]
PyName(lit) == [t |-> "name", v |-> lit]
PyInt(n) == [t |-> "int", v |-> n]
PyDict(items) == [t |-> "dict", v |-> items]
PyList(elems) == [t |-> "list", v |-> elems]
None == [t |-> "None", v |-> <<>>]
Item(k, val) == [k |-> k, v |-> val]
EmptyDict == PyDict(<<>>)

\* An outcome of a call: a returned value or a raised exception.
Raise(exc) == [t |-> "raise", v |-> exc]
Return(val) == [t |-> "value", v |-> val]

DictKeys(d) == {d.v[i].k : i \in 1..Len(d.v)}
DictHas(d, k) == \E i \in 1..Len(d.v) : d.v[i].k = k
DictGet(d, k) == d.v[CHOOSE i \in 1..Len(d.v) : d.v[i].k = k].v
\* d[k] = val: in place for a key d holds, appended for a new one.
DictSet(d, k, val) ==
    IF DictHas(d, k)
    THEN PyDict([i \in 1..Len(d.v) |->
                 IF d.v[i].k = k THEN Item(k, val) ELSE d.v[i]])
    ELSE PyDict(Append(d.v, Item(k, val)))
\* d.get(k)
DictGetOrNone(d, k) == IF DictHas(d, k) THEN DictGet(d, k) ELSE None

\* d.get(name) for a literal key.
Field(d, name) == DictGetOrNone(d, PyName(name))

----------------------------------------------------------------------------
(***************************************************************************)
(* parse_table_row.                                                        *)
(***************************************************************************)
\* The keys of the dict display, in the order it writes them.
FieldOrder == <<"user", "id", "aka", "hardware", "latitude", "longitude",
                "battery", "channel_util", "tx_util", "snr", "hops",
                "last_heard", "since">>

\* The zero-based column each field is read from.
ColumnOf(f) ==
    CASE f = "user" -> 1         [] f = "id" -> 2
      [] f = "aka" -> 3          [] f = "hardware" -> 4
      [] f = "latitude" -> 5     [] f = "longitude" -> 6
      [] f = "battery" -> 8      [] f = "channel_util" -> 9
      [] f = "tx_util" -> 10     [] f = "snr" -> 11
      [] f = "hops" -> 12        [] f = "last_heard" -> 14
      [] f = "since" -> 15

\* Whether cols[i] of a Python list raises IndexError (i >= 0).
OutOfRange(cols, i) == i >= Len(cols)

\* The dict display of lines 75-89: raises IndexError if a column it reads
\* is out of range.
build_record(cols) ==
    IF \E j \in 1..Len(FieldOrder) : OutOfRange(cols, ColumnOf(FieldOrder[j]))
    THEN Raise("IndexError")
    ELSE Return(PyDict([j \in 1..Len(FieldOrder) |->
                        Item(PyName(FieldOrder[j]),
                             PyStr(cols[ColumnOf(FieldOrder[j]) + 1]))]))

\* [col.strip() for col in row.split(SEP)]
split_columns(line) ==
    LET raw == split(line, SEP)
    IN  [i \in 1..Len(raw) |-> strip(raw[i])]

\* parse_table_row without its "except IndexError" (a mutant).
parse_table_row_uncaught(line) ==
    LET cols == split_columns(line)
    IN  IF Len(cols) < MinColumns THEN None ELSE build_record(cols)

\* parse_table_row reading every field one column to the left (a mutant).
parse_table_row_shifted(line) ==
    LET cols == split_columns(line)
    IN  IF Len(cols) < MinColumns THEN None
        ELSE LET r == build_record(<< <<>> >> \o cols)
             IN  IF r.t = "raise" THEN None ELSE r

\* parse_table_row reading a column the line does not have as "" (a mutant).
parse_table_row_padded(line) ==
    LET cols == split_columns(line)
    IN  IF Len(cols) < MinColumns THEN None
        ELSE build_record(cols \o << <<>> >>)

\* Returns Return(record) or None; Raise(...) is what would propagate.
parse_table_row(line) ==
    LET cols == split_columns(line)
    IN  IF Len(cols) < MinColumns THEN None
        ELSE LET r == build_record(cols)
             IN  IF r.t = "raise" /\ r.v = "IndexError" THEN None ELSE r

----------------------------------------------------------------------------
(***************************************************************************)
(* float(): the glyph strings of this model are digit strings (a natural   *)
(* number), "nan" (the float nan) and strings float() rejects.             *)
(***************************************************************************)
Digits == <<"0", "1", "2", "3", "4", "5", "6", "7", "8", "9">>
IsDigit(c) == \E d \in 1..Len(Digits) : Digits[d] = c
DigitValue(c) == (CHOOSE d \in 1..Len(Digits) : Digits[d] = c) - 1

RECURSIVE DecimalValue(_)
DecimalValue(s) ==
    IF s = <<>> THEN 0
    ELSE DecimalValue(SubSeq(s, 1, Len(s) - 1)) * Len(Digits)
         + DigitValue(s[Len(s)])

NanSpellings == {<<"n", "a", "n">>, <<"N", "a", "N">>}

float(s) ==
    LET u == strip(s)
    IN  IF u # <<>> /\ \A i \in 1..Len(u) : IsDigit(u[i])
        THEN Return(DecimalValue(u))
        ELSE IF u \in NanSpellings THEN Return(NaN)
        ELSE Raise("ValueError")

\* Python's a > b on floats: false whenever either side is nan.
FloatGT(a, b) == a # NaN /\ b # NaN /\ a > b
FloatGE(a, b) == a # NaN /\ b # NaN /\ a >= b

\* max(a, b): the first argument unless the second is greater.
max2(a, b) == IF FloatGT(b, a) THEN b ELSE a

\* max(iterable) over a non-empty sequence: the first item is kept until a
\* later one compares greater.  Nothing compares greater than nan, so a
\* leading nan is the result; after a leading number a nan never compares
\* greater, so the result is the largest of the numbers.
max_of(xs) ==
    IF xs[1] = NaN THEN NaN
    ELSE CHOOSE m \in {xs[i] : i \in 1..Len(xs)} \ {NaN} :
             \A i \in 1..Len(xs) : ~FloatGT(xs[i], m)

----------------------------------------------------------------------------
(***************************************************************************)
(* channel_history and update_channel_history.  A sample is the pair       *)
(* <<timestamp, util>>; a deque is the sequence of its samples, oldest     *)
(* first.                                                                  *)
(***************************************************************************)
\* deque.append without maxlen (a mutant).
deque_append_unbounded(dq, x) == Append(dq, x)

\* deque.append evicting the newest sample instead of the oldest (a mutant).
deque_append_drop_newest(dq, x) ==
    IF Len(dq) >= HISTORY_LENGTH
    THEN Append(SubSeq(dq, 1, Len(dq) - 1), x)
    ELSE Append(dq, x)

\* deque(maxlen=HISTORY_LENGTH).append(x)
deque_append(dq, x) ==
    IF Len(dq) >= HISTORY_LENGTH THEN Append(Tail(dq), x) ELSE Append(dq, x)

\* channel_history[user] of the defaultdict: a missing key is created empty.
series_of(ch, user) == IF DictHas(ch, user) THEN DictGet(ch, user) ELSE <<>>

\* A loop body that records 0.0 for a text that is no number (a mutant).
record_sample_zero(ch, node, timestamp) ==
    IF DictHas(node, PyName("user")) /\ DictHas(node, PyName("channel_util"))
    THEN LET util == float(rstrip(DictGet(node, PyName("channel_util")).v,
                                  {"%"}))
             user == DictGet(node, PyName("user"))
         IN  DictSet(ch, user,
                     deque_append(series_of(ch, user),
                                  <<timestamp,
                                    IF util.t = "raise" THEN 0 ELSE util.v>>))
    ELSE ch

\* The body of the for loop, for one node.
record_sample(ch, node, timestamp) ==
    IF DictHas(node, PyName("user")) /\ DictHas(node, PyName("channel_util"))
    THEN LET util == float(rstrip(DictGet(node, PyName("channel_util")).v,
                                  {"%"}))
             user == DictGet(node, PyName("user"))
         IN  IF util.t = "raise" THEN ch
             ELSE DictSet(ch, user,
                          deque_append(series_of(ch, user),
                                       <<timestamp, util.v>>))
    ELSE ch

RECURSIVE update_channel_history(_, _, _)
update_channel_history(ch, ns, timestamp) ==
    IF ns = <<>> THEN ch
    ELSE update_channel_history(record_sample(ch, Head(ns), timestamp),
                                Tail(ns), timestamp)

----------------------------------------------------------------------------
(***************************************************************************)
(* run_meshtastic_command, from the collector's stdout on.                 *)
(***************************************************************************)
\* A line the caller hands to parse_table_row.
is_table_row(line) ==
    Contains(line, SEP) /\ ~\E g \in BorderGlyphs : Contains(line, g)

RECURSIVE collect_nodes(_)
collect_nodes(lines) ==
    IF lines = <<>> THEN <<>>
    ELSE LET line == Head(lines)
             node == IF is_table_row(line) THEN parse_table_row(line)
                     ELSE None
         IN  (IF node.t = "value" THEN <<node.v>> ELSE <<>>)
             \o collect_nodes(Tail(lines))

\* The nodes parsed from the stdout of a collector that exited with 0.
parse_stdout(stdout) == collect_nodes(split(stdout, "\n"))

----------------------------------------------------------------------------
(***************************************************************************)
(* json.dump and json.load, over the tokens of the JSON text (whitespace   *)
(* is not a token).  A string or number token is the Python value itself.  *)
(***************************************************************************)
Punct(g) == [t |-> "punct", v |-> g]
LBRACE == Punct("{")
RBRACE == Punct("}")
LBRACKET == Punct("[")
RBRACKET == Punct("]")
COLON == Punct(":")
COMMA == Punct(",")
NULL == [t |-> "null", v |-> <<>>]

RECURSIVE json_dump(_), json_dump_items(_), json_dump_elems(_)
json_dump(val) ==
    CASE val.t = "dict" -> <<LBRACE>> \o json_dump_items(val.v) \o <<RBRACE>>
      [] val.t = "list" -> <<LBRACKET>> \o json_dump_elems(val.v)
                           \o <<RBRACKET>>
      [] val.t = "None" -> <<NULL>>
      [] OTHER -> <<val>>
json_dump_items(items) ==
    IF items = <<>> THEN <<>>
    ELSE <<Head(items).k, COLON>> \o json_dump(Head(items).v)
         \o (IF Len(items) > 1 THEN <<COMMA>> ELSE <<>>)
         \o json_dump_items(Tail(items))
json_dump_elems(elems) ==
    IF elems = <<>> THEN <<>>
    ELSE json_dump(Head(elems))
         \o (IF Len(elems) > 1 THEN <<COMMA>> ELSE <<>>)
         \o json_dump_elems(Tail(elems))

\* A parse step: the value read and the index of the next token, or failure.
Parsed(val, next) == [ok |-> TRUE, val |-> val, next |-> next]
ParseFail == [ok |-> FALSE, val |-> None, next |-> 0]
TokenAt(toks, i) == IF i <= Len(toks) THEN toks[i] ELSE Punct("<EOF>")

RECURSIVE json_value(_, _), json_members(_, _, _), json_elements(_, _, _)
json_value(toks, i) ==
    LET tk == TokenAt(toks, i)
    IN  CASE tk.t \in {"str", "name", "int"} -> Parsed(tk, i + 1)
          [] tk.t = "null" -> Parsed(None, i + 1)
          [] tk = LBRACE ->
                IF TokenAt(toks, i + 1) = RBRACE
                THEN Parsed(EmptyDict, i + 2)
                ELSE json_members(toks, i + 1, EmptyDict)
          [] tk = LBRACKET ->
                IF TokenAt(toks, i + 1) = RBRACKET
                THEN Parsed(PyList(<<>>), i + 2)
                ELSE json_elements(toks, i + 1, <<>>)
          [] OTHER -> ParseFail
\* "key": value pairs from token i, up to the closing brace.
json_members(toks, i, acc) ==
    IF TokenAt(toks, i).t \in {"str", "name"} /\ TokenAt(toks, i + 1) = COLON
    THEN LET m == json_value(toks, i + 2)
         IN  IF ~m.ok THEN ParseFail
             ELSE LET d == DictSet(acc, toks[i], m.val)
                  IN  CASE TokenAt(toks, m.next) = COMMA ->
                                json_members(toks, m.next + 1, d)
                        [] TokenAt(toks, m.next) = RBRACE ->
                                Parsed(d, m.next + 1)
                        [] OTHER -> ParseFail
    ELSE ParseFail
json_elements(toks, i, acc) ==
    LET m == json_value(toks, i)
    IN  IF ~m.ok THEN ParseFail
        ELSE CASE TokenAt(toks, m.next) = COMMA ->
                      json_elements(toks, m.next + 1, Append(acc, m.val))
              [] TokenAt(toks, m.next) = RBRACKET ->
                      Parsed(PyList(Append(acc, m.val)), m.next + 1)
              [] OTHER -> ParseFail

\* json.load: one value and then the end of the text, else JSONDecodeError.
json_load(toks) ==
    LET m == json_value(toks, 1)
    IN  IF m.ok /\ m.next = Len(toks) + 1 THEN Return(m.val)
        ELSE Raise("JSONDecodeError")

----------------------------------------------------------------------------
(***************************************************************************)
(* NodeHistory.  The backing file is absent or holds JSON tokens.          *)
(***************************************************************************)
Absent == [t |-> "absent", v |-> <<>>]
FileOf(toks) == [t |-> "file", v |-> toks]

load_history(f) ==
    IF f.t = "absent" THEN EmptyDict
    ELSE LET r == json_load(f.v)
         IN  IF r.t = "raise" /\ r.v = "JSONDecodeError" THEN EmptyDict
             ELSE r.v

\* save_history writing only each entry's latest_info (a mutant).
save_history_latest_only(sn) ==
    FileOf(json_dump(PyDict([i \in 1..Len(sn.v) |->
        Item(sn.v[i].k, DictGet(sn.v[i].v, PyName("latest_info")))])))

\* What save_history writes when it completes.
save_history(sn) == FileOf(json_dump(sn))

\* datetime.now().isoformat() at tick n: the tick's decimal glyphs.
RECURSIVE DecimalGlyphs(_)
DecimalGlyphs(n) ==
    IF n < Len(Digits) THEN <<Digits[n + 1]>>
    ELSE Append(DecimalGlyphs(n \div Len(Digits)), Digits[(n % Len(Digits)) + 1])
isoformat(n) == PyStr(DecimalGlyphs(n))

\* The entry of an identifier seen for the first time (lines 43-48).
new_entry(node, t) ==
    PyDict(<<Item(PyName("first_seen"), isoformat(t)),
             Item(PyName("times_seen"), PyInt(1)),
             Item(PyName("last_heard"), DictGet(node, PyName("last_heard"))),
             Item(PyName("latest_info"), EmptyDict)>>)

\* An else branch that counts every call (a mutant).
count_every_call(old, node) ==
    DictSet(DictSet(old, PyName("times_seen"),
                    PyInt(DictGet(old, PyName("times_seen")).v + 1)),
            PyName("last_heard"), DictGet(node, PyName("last_heard")))

\* The else branch (lines 50-53): count only a changed last_heard.
count_distinct(old, node) ==
    IF DictGet(node, PyName("last_heard"))
           # DictGetOrNone(old, PyName("last_heard"))
    THEN DictSet(DictSet(old, PyName("times_seen"),
                         PyInt(DictGet(old, PyName("times_seen")).v + 1)),
                 PyName("last_heard"), DictGet(node, PyName("last_heard")))
    ELSE old

\* Lines 55-56 also overwriting first_seen (a mutant).
stamp_all(entry, node, t) ==
    DictSet(DictSet(DictSet(entry, PyName("first_seen"), isoformat(t)),
                    PyName("last_seen"), isoformat(t)),
            PyName("latest_info"), node)

\* Lines 55-56 run only for a new entry or a changed last_heard (a mutant).
stamp_on_change(entry, node, t) ==
    IF \/ Field(entry, "latest_info") = EmptyDict
       \/ Field(Field(entry, "latest_info"), "last_heard")
              # Field(node, "last_heard")
    THEN DictSet(DictSet(entry, PyName("last_seen"), isoformat(t)),
                 PyName("latest_info"), node)
    ELSE entry

\* Lines 55-56: last_seen and latest_info, on every call.
stamp(entry, node, t) ==
    DictSet(DictSet(entry, PyName("last_seen"), isoformat(t)),
            PyName("latest_info"), node)

\* Lines 41-56 of update_node: the new seen_nodes, or the exception raised
\* (seen_nodes[node_id] = ... of a value that is no dict is a TypeError).
update_node(sn, node, t) ==
    LET node_id == DictGet(node, PyName("id"))
    IN  IF sn.t # "dict" THEN Raise("TypeError")
        ELSE LET entry == IF ~DictHas(sn, node_id)
                          THEN new_entry(node, t)
                          ELSE count_distinct(DictGet(sn, node_id), node)
             IN  Return(DictSet(sn, node_id, stamp(entry, node, t)))

\* get_all_nodes: latest_info merged with first_seen and times_seen.
get_all_nodes(sn) ==
    [i \in 1..Len(sn.v) |->
        DictSet(DictSet(DictGet(sn.v[i].v, PyName("latest_info")),
                        PyName("first_seen"),
                        DictGet(sn.v[i].v, PyName("first_seen"))),
                PyName("times_seen"),
                DictGet(sn.v[i].v, PyName("times_seen")))]

----------------------------------------------------------------------------
(***************************************************************************)
(* Text the environment supplies: table lines, built from their cells.     *)
(***************************************************************************)
\* cells joined by the separator, each cell between two copies of pad.
RECURSIVE JoinCells(_, _)
JoinCells(cells, pad) ==
    IF cells = <<>> THEN <<>>
    ELSE pad \o Head(cells) \o pad
         \o (IF Len(cells) > 1 THEN <<SEP>> ELSE <<>>)
         \o JoinCells(Tail(cells), pad)

\* The 16 columns of the documented example row.
ExampleColumns ==
    <<<<>>,
      <<"A", "l", "i", "c", "e">>,
      <<"!", "a", "b", "c", "1", "2", "3">>,
      <<"A", "K">>,
      <<"T", "B", "E", "A", "M">>,
      <<"1", "2", ".", "3">>,
      <<"4", "5", ".", "6">>,
      <<>>,
      <<"8", "0", "%">>,
      <<"4", "2", "%">>,
      <<"1", "5", "%">>,
      <<"3", ".", "2">>,
      <<"2">>,
      <<>>,
      <<"5", "m", " ", "a", "g", "o">>,
      <<"j", "u", "s", "t", " ", "n", "o", "w">>>>
ExampleLine == JoinCells(ExampleColumns, <<" ">>)

\* Cell texts and paddings the stand-alone parser calls draw from.
CellPool == <<<<>>, <<"A", "l">>, <<"!", "a">>, <<"4", "2", "%">>, <<"5", "m", " ", "a", "g", "o">>>>
Paddings == {<<>>, <<" ">>, <<"\t", " ">>}

\* Line number n of pattern p: n cells, cell i taken round-robin from the pool.
PatternLine(n, p, pad) ==
    JoinCells([i \in 1..n |-> CellPool[((i + p) % Len(CellPool)) + 1]], pad)

ParseInputs ==
    {ExampleLine, <<>>}
    \cup {PatternLine(n, p, pad) :
             n \in 1..MaxFields, p \in 1..Len(CellPool), pad \in Paddings}

Pending == [t |-> "pending", v |-> <<>>]

----------------------------------------------------------------------------
(***************************************************************************)
(* The collector's stdout: a framed table of 15 visible columns, as the    *)
(* parser's column numbers assume it (column 0 is the empty text before    *)
(* the first separator).                                                   *)
(***************************************************************************)
FormatRow(cells) == <<SEP>> \o JoinCells(cells, <<" ">>) \o <<SEP>>

HeaderCells ==
    <<<<"U", "s", "e", "r">>,
      <<"I", "D">>,
      <<"A", "K", "A">>,
      <<"H", "a", "r", "d", "w", "a", "r", "e">>,
      <<"L", "a", "t", "i", "t", "u", "d", "e">>,
      <<"L", "o", "n", "g", "i", "t", "u", "d", "e">>,
      <<"A", "l", "t", "i", "t", "u", "d", "e">>,
      <<"B", "a", "t", "t", "e", "r", "y">>,
      <<"C", "h", "a", "n", "n", "e", "l", " ", "u", "t", "i", "l", ".">>,
      <<"T", "x", " ", "a", "i", "r", " ", "u", "t", "i", "l", ".">>,
      <<"S", "N", "R">>,
      <<"H", "o", "p", "s">>,
      <<"C", "h", "a", "n", "n", "e", "l">>,
      <<"L", "a", "s", "t", "H", "e", "a", "r", "d">>,
      <<"S", "i", "n", "c", "e">>>>

G_TBEAM == <<"T", "B", "E", "A", "M">>
G_80 == <<"8", "0", "%">>
G_1 == <<"1", "%">>
G_3 == <<"3", ".", "2">>
G_2 == <<"2">>
G_0 == <<"0">>
G_now == <<"n", "o", "w">>

\* A data row: the cells the model varies, the others fixed.
DataCells(user, id, util, last_heard) ==
    <<user, id, user, G_TBEAM, <<>>, <<>>, <<>>, G_80, util,
      G_1, G_3, G_2, G_0, last_heard, G_now>>

\* A horizontal rule of the frame: no separator glyph in it.
Rule(left, fill, right) == <<left>> \o [i \in 1..Len(HeaderCells) |-> fill] \o <<right>>

RECURSIVE JoinLines(_)
JoinLines(lines) ==
    IF lines = <<>> THEN <<>>
    ELSE Head(lines) \o <<"\n">> \o JoinLines(Tail(lines))

RECURSIVE DataLines(_)
DataLines(rows) ==
    IF rows = <<>> THEN <<>>
    ELSE <<FormatRow(Head(rows))>>
         \o (IF Len(rows) > 1 THEN <<Rule("<RL>", "-", "<RR>")>> ELSE <<>>)
         \o DataLines(Tail(rows))

Table(rows) ==
    JoinLines(<<Rule("<TL>", "=", "<TR>"), FormatRow(HeaderCells),
                Rule("<ML>", "=", "<MR>")>>
              \o DataLines(rows)
              \o <<Rule("<BL>", "=", "<BR>")>>)

\* The nodes, last-heard texts and utilization texts of the model's tables.
U_Alice == <<"A", "l", "i", "c", "e">>
U_Bob == <<"B", "o", "b">>
ID_Alice == <<"!", "a", "1">>
ID_Bob == <<"!", "b", "2">>
LH_A == <<"0", "9", ":", "0", "0">>
LH_B == <<"0", "9", ":", "0", "5">>

Row_Alice10 == DataCells(U_Alice, ID_Alice, <<"1", "0", "%">>, LH_A)
Row_Alice20 == DataCells(U_Alice, ID_Alice, <<"2", "0", "%">>, LH_B)
Row_Bob90 == DataCells(U_Bob, ID_Bob, <<"9", "0", "%">>, LH_A)
Row_BobNaN == DataCells(U_Bob, ID_Bob, <<"n", "a", "n", "%">>, LH_B)

\* What a collector that exits with 0 may print: tables, and text that is
\* no table at all.
Stdouts ==
    {Table(<<Row_Alice10>>), Table(<<Row_Alice20>>),
     Table(<<Row_Alice10, Row_Bob90>>), Table(<<Row_BobNaN>>),
     JoinLines(<<<<"E", "r", "r", "o", "r", " ", "c", "o", "n", "n", "e", "c", "t", "i", "n", "g">>>>)}

\* The backing file the first run may find: none, or one some other program
\* left there holding the JSON text [].
InitialFiles == {Absent, FileOf(<<LBRACKET, RBRACKET>>)}

----------------------------------------------------------------------------
(***************************************************************************)
(* draw_graph: the vertical scale and the legend.                          *)
(***************************************************************************)
\* The loop of lines 131-134 over the series from item i on.
RECURSIVE scale_from(_, _, _)
scale_from(ch, i, max_util) ==
    IF i > Len(ch.v) THEN max_util
    ELSE scale_from(ch, i + 1,
            IF ch.v[i].v # <<>>
            THEN max2(max_util,
                      max_of([j \in 1..Len(ch.v[i].v) |-> ch.v[i].v[j][2]]))
            ELSE max_util)

\* max_util of draw_graph: starts at 1.0.
max_util_of(ch) == scale_from(ch, 1, 1)

\* Colors and legend rows counted from the newest series back (a mutant).
legend_of_newest_first(ch) ==
    [i \in 1..Len(ch.v) |->
        [user |-> ch.v[i].k,
         color |-> ((Len(ch.v) - i) % PaletteSize) + 1,
         offset |-> Len(ch.v) - i]]

\* The color and the legend row offset of each series with samples.
legend_of(ch) ==
    [i \in 1..Len(ch.v) |->
        [user |-> ch.v[i].k,
         color |-> ((i - 1) % PaletteSize) + 1,
         offset |-> i - 1]]

NoFrame == [drawn |-> FALSE, max_util |-> 0, legend |-> <<>>]
draw_graph(ch) ==
    [drawn |-> TRUE, max_util |-> max_util_of(ch), legend |-> legend_of(ch)]

\* int() of nan raises ValueError: a series that plots a pair holding nan.
plots_nan(ch) ==
    \E i \in 1..Len(ch.v) :
        /\ Len(ch.v[i].v) >= 2
        /\ \E j \in 1..Len(ch.v[i].v) : ch.v[i].v[j][2] = NaN

----------------------------------------------------------------------------
(***************************************************************************)
(* The process: main and its poll loop.                                    *)
(*   Start      before NodeHistory() is constructed                        *)
(*   Polling    at the top of the while loop                               *)
(*   Recording  before update_channel_history(nodes)                       *)
(*   Upserting  in "for node in nodes: node_history.update_node(node)"     *)
(*   Rendering  before the drawing calls                                   *)
(*   Waiting    in stdscr.getch()                                          *)
(*   Reporting  in "except Exception as e"                                 *)
(*   Terminated main returned through "break"                              *)
(*   Crashed    an exception left main                                     *)
(*   Killed     the process was killed while it wrote the backing file     *)
(***************************************************************************)
Stopped == {"Terminated", "Crashed", "Killed"}

Init ==
    /\ pc = "Start"
    /\ now = 0
    /\ cycle = 0
    /\ file \in InitialFiles
    /\ seen_nodes = EmptyDict
    /\ channel_history = EmptyDict
    /\ nodes = <<>>
    /\ idx = 0
    /\ collector = "none"
    /\ fault = "none"
    /\ key = "none"
    /\ frame = NoFrame
    /\ row = <<>>
    /\ result = Pending
    /\ polled = <<>>
    /\ durable = {}

\* NodeHistory(): seen_nodes = load_history().
Construct ==
    /\ pc = "Start"
    /\ seen_nodes' = load_history(file)
    /\ pc' = "Polling"
    /\ UNCHANGED <<now, cycle, file, channel_history, nodes, idx, collector,
                   fault, key, frame, row, result>>
    /\ UNCHANGED <<polled, durable>>

\* stdscr.clear() and run_meshtastic_command(host).
Poll ==
    /\ pc = "Polling"
    /\ cycle < MaxCycles
    /\ cycle' = cycle + 1
    /\ frame' = NoFrame
    /\ idx' = 0
    /\ \/ \E stdout \in Stdouts :
            /\ collector' = "exit_0"
            /\ nodes' = parse_stdout(stdout)
            /\ pc' = "Recording"
            /\ fault' = "none"
       \/ \* a non-zero exit: CalledProcessError, caught, returns []
          /\ collector' = "exit_nonzero"
          /\ nodes' = <<>>
          /\ pc' = "Recording"
          /\ fault' = "none"
       \/ \* the executable cannot be started: FileNotFoundError, not caught
          \* by run_meshtastic_command
          /\ collector' = "launch_failure"
          /\ nodes' = <<>>
          /\ pc' = "Reporting"
          /\ fault' = "FileNotFoundError"
    /\ UNCHANGED <<now, file, seen_nodes, channel_history, key, row, result>>
    /\ polled' = IF pc' = "Recording" THEN Append(polled, nodes') ELSE polled
    /\ UNCHANGED durable

\* update_channel_history(nodes)
Record ==
    /\ pc = "Recording"
    /\ channel_history' = update_channel_history(channel_history, nodes, now)
    /\ pc' = IF nodes = <<>> THEN "Rendering" ELSE "Upserting"
    /\ UNCHANGED <<now, cycle, file, seen_nodes, nodes, idx, collector, fault,
                   key, frame, row, result>>
    /\ UNCHANGED <<polled, durable>>

\* What an interrupted json.dump leaves of the text it was writing.
PartialWrites(toks) == {SubSeq(toks, 1, Len(toks) \div 2)}

\* One node_history.update_node(node), save_history included.
Upsert ==
    /\ pc = "Upserting"
    /\ idx < Len(nodes)
    /\ LET r == update_node(seen_nodes, nodes[idx + 1], now)
       IN  IF r.t = "raise"
           THEN /\ pc' = "Reporting"
                /\ fault' = r.v
                /\ UNCHANGED <<seen_nodes, file, idx>>
           ELSE /\ seen_nodes' = r.v
                /\ \/ \* save_history completes
                      /\ file' = save_history(r.v)
                      /\ idx' = idx + 1
                      /\ pc' = IF idx + 1 = Len(nodes) THEN "Rendering"
                               ELSE "Upserting"
                      /\ UNCHANGED fault
                   \/ \* a write fails after open() truncated the file
                      /\ \E toks \in PartialWrites(json_dump(r.v)) :
                            file' = FileOf(toks)
                      /\ pc' = "Reporting"
                      /\ fault' = "OSError"
                      /\ UNCHANGED idx
                   \/ \* the process is killed during the write
                      /\ \E toks \in PartialWrites(json_dump(r.v)) :
                            file' = FileOf(toks)
                      /\ pc' = "Killed"
                      /\ UNCHANGED <<fault, idx>>
    /\ UNCHANGED <<now, cycle, channel_history, nodes, collector, key, frame,
                   row, result>>
    /\ durable' = IF pc' \in {"Upserting", "Rendering"}
                  THEN durable \cup {<<Field(nodes[idx + 1], "id"),
                                       Field(DictGet(seen_nodes',
                                                     Field(nodes[idx + 1], "id")),
                                             "first_seen")>>}
                  ELSE durable
    /\ UNCHANGED polled

\* The header, the table, draw_graph, draw_history_summary and refresh.
Render ==
    /\ pc = "Rendering"
    /\ \/ \* curses.error in one of the drawing calls: "pass", and on to the
          \* next cycle
          /\ frame' = NoFrame
          /\ pc' = "Polling"
          /\ UNCHANGED fault
       \/ /\ frame' = draw_graph(channel_history)
          /\ \/ \* int(nan) while plotting
                /\ plots_nan(channel_history)
                /\ pc' = "Reporting"
                /\ fault' = "ValueError"
             \/ \* get_all_nodes: seen_nodes.values() of a value that is no dict
                /\ ~plots_nan(channel_history)
                /\ seen_nodes.t # "dict"
                /\ pc' = "Reporting"
                /\ fault' = "AttributeError"
             \/ \* the frame is drawn
                /\ ~plots_nan(channel_history)
                /\ seen_nodes.t = "dict"
                /\ pc' = "Waiting"
                /\ UNCHANGED fault
    /\ UNCHANGED <<now, cycle, file, seen_nodes, channel_history, nodes, idx,
                   collector, key, row, result>>
    /\ UNCHANGED <<polled, durable>>

\* stdscr.timeout(1000); key = stdscr.getch()
Wait ==
    /\ pc = "Waiting"
    /\ \E k \in {"q", "timeout"} :
          /\ key' = k
          /\ pc' = IF k = "q" THEN "Terminated" ELSE "Polling"
    /\ now' = now + 1
    /\ UNCHANGED <<cycle, file, seen_nodes, channel_history, nodes, idx,
                   collector, fault, frame, row, result>>
    /\ UNCHANGED <<polled, durable>>

\* except Exception as e: addstr, refresh, time.sleep(1)
Report ==
    /\ pc = "Reporting"
    /\ \/ /\ pc' = "Polling"
          /\ fault' = "none"
          /\ now' = now + 1
       \/ \* addstr raises curses.error inside the handler: it leaves main
          /\ pc' = "Crashed"
          /\ UNCHANGED <<fault, now>>
    /\ UNCHANGED <<cycle, file, seen_nodes, channel_history, nodes, idx,
                   collector, key, frame, row, result>>
    /\ UNCHANGED <<polled, durable>>

\* The program is started again: a new process, the same backing file.
Restart ==
    /\ pc \in Stopped
    /\ pc' = "Start"
    /\ seen_nodes' = EmptyDict
    /\ channel_history' = EmptyDict
    /\ nodes' = <<>>
    /\ idx' = 0
    /\ collector' = "none"
    /\ fault' = "none"
    /\ key' = "none"
    /\ frame' = NoFrame
    /\ UNCHANGED <<now, cycle, file, row, result>>
    /\ polled' = <<>>
    /\ UNCHANGED durable

Next ==
    \/ Construct
    \/ Poll
    \/ Record
    \/ Upsert
    \/ Render
    \/ Wait
    \/ Report
    \/ Restart

Spec == Init /\ [][Next]_vars

----------------------------------------------------------------------------
(***************************************************************************)
(* parse_table_row called on its own, on every line of ParseInputs.        *)
(***************************************************************************)
InitParse ==
    /\ pc = "Parsing"
    /\ row \in ParseInputs
    /\ result = Pending
    /\ now = 0
    /\ cycle = 0
    /\ file = Absent
    /\ seen_nodes = EmptyDict
    /\ channel_history = EmptyDict
    /\ nodes = <<>>
    /\ idx = 0
    /\ collector = "none"
    /\ fault = "none"
    /\ key = "none"
    /\ frame = NoFrame
    /\ polled = <<>>
    /\ durable = {}

ParseCall ==
    /\ result = Pending
    /\ result' = parse_table_row(row)
    /\ UNCHANGED <<pc, now, cycle, file, seen_nodes, channel_history, nodes,
                   idx, collector, fault, key, frame, row>>
    /\ UNCHANGED <<polled, durable>>

NextLine ==
    /\ result # Pending
    /\ row' \in ParseInputs
    /\ result' = Pending
    /\ UNCHANGED <<pc, now, cycle, file, seen_nodes, channel_history, nodes,
                   idx, collector, fault, key, frame>>
    /\ UNCHANGED <<polled, durable>>

NextParse ==
    \/ ParseCall
    \/ NextLine

SpecParse == InitParse /\ [][NextParse]_vars

(***************************************************************************)
(* The series and the scale of the graph over MaxAppends cycles:           *)
(* update_channel_history and then draw_graph, once per tick.              *)
(* Alice reports a utilization every tick; Bob reports nothing or a text   *)
(* that is no number until he joins, with a utilization or with nan, and a *)
(* utilization every tick from then on.                                    *)
(***************************************************************************)
\* The utilization Alice reports at tick t: no two ticks in a row alike.
SampleValue(t) == (t * 7) % 100
PercentText(n) == DecimalGlyphs(n) \o <<"%">>
NodeOf(cells) == parse_table_row(FormatRow(cells)).v

SeriesInputs(t, ch) ==
    LET alice == NodeOf(DataCells(U_Alice, ID_Alice,
                                  PercentText(SampleValue(t)), LH_A))
        bob == NodeOf(DataCells(U_Bob, ID_Bob,
                                PercentText(SampleValue(t + 1)), LH_A))
        bob_na == NodeOf(DataCells(U_Bob, ID_Bob, <<"N", "/", "A">>, LH_A))
        bob_nan == NodeOf(DataCells(U_Bob, ID_Bob,
                                    <<"n", "a", "n", "%">>, LH_A))
    IN  IF DictHas(ch, PyStr(U_Bob))
        THEN {<<alice, bob>>}
        ELSE {<<alice>>, <<alice, bob>>, <<bob_na, alice>>,
              <<alice, bob_nan>>}

InitSeries ==
    /\ pc = "Series"
    /\ now = 0
    /\ cycle = 0
    /\ file = Absent
    /\ seen_nodes = EmptyDict
    /\ channel_history = EmptyDict
    /\ nodes = <<>>
    /\ idx = 0
    /\ collector = "none"
    /\ fault = "none"
    /\ key = "none"
    /\ frame = NoFrame
    /\ row = <<>>
    /\ result = Pending
    /\ polled = <<>>
    /\ durable = {}

SeriesTick ==
    /\ now < MaxAppends
    /\ \E ns \in SeriesInputs(now, channel_history) :
          /\ nodes' = ns
          /\ channel_history' = update_channel_history(channel_history, ns, now)
    /\ frame' = draw_graph(channel_history')
    /\ now' = now + 1
    /\ UNCHANGED <<pc, cycle, file, seen_nodes, idx, collector, fault, key,
                   row, result>>
    /\ UNCHANGED <<polled, durable>>

SpecSeries == InitSeries /\ [][SeriesTick]_vars

(***************************************************************************)
(* update_node called for each record of a list, as main's for loop does,  *)
(* on every list of at most MaxCalls records of LedgerRecords.             *)
(***************************************************************************)
LedgerRecords ==
    {NodeOf(DataCells(u[1], u[2], <<"1", "0", "%">>, lh)) :
        u \in {<<U_Alice, ID_Alice>>, <<U_Bob, ID_Bob>>}, lh \in {LH_A, LH_B}}

InitLedger ==
    /\ pc = "Upserting"
    /\ now = 0
    /\ cycle = 0
    /\ file = Absent
    /\ seen_nodes = EmptyDict
    /\ channel_history = EmptyDict
    /\ nodes \in UNION {[1..n -> LedgerRecords] : n \in 1..MaxCalls}
    /\ idx = 0
    /\ collector = "none"
    /\ fault = "none"
    /\ key = "none"
    /\ frame = NoFrame
    /\ row = <<>>
    /\ result = Pending
    /\ polled = <<>>
    /\ durable = {}

\* One update_node call whose save_history completes; a tick may pass
\* before the next.
LedgerUpsert ==
    /\ idx < Len(nodes)
    /\ LET r == update_node(seen_nodes, nodes[idx + 1], now)
       IN  /\ seen_nodes' = r.v
           /\ file' = save_history(r.v)
    /\ idx' = idx + 1
    /\ \E dt \in {0, 1} : now' = now + dt
    /\ UNCHANGED <<pc, cycle, channel_history, nodes, collector, fault, key,
                   frame, row, result>>
    /\ UNCHANGED <<polled, durable>>

SpecLedger == InitLedger /\ [][LedgerUpsert]_vars

----------------------------------------------------------------------------
(***************************************************************************)
(* Properties.                                                             *)
(***************************************************************************)
\* The records update_node has been called with so far (SpecLedger), and of
\* those the last_heard values given for one identifier, in call order.
Applied == SubSeq(nodes, 1, idx)
HeardFor(id) ==
    LET calls == SelectSeq(Applied, LAMBDA n : Field(n, "id") = id)
    IN  [i \in 1..Len(calls) |-> Field(calls[i], "last_heard")]
ChangesIn(lhs) == Cardinality({i \in 2..Len(lhs) : lhs[i] # lhs[i - 1]})
LedgerIds == {PyStr(ID_Alice), PyStr(ID_Bob)}

\* C1: after any sequence of update_node calls, an identifier that was never
\* given has no entry, and one that was given has times_seen = 1 + the number
\* of calls after its first whose last_heard differed from the one before
\* (the stored one), and its stored last_heard is the last one given.  So
\* A, A, B gives 2.
C1_TimesSeenCountsChanges ==
    \A id \in LedgerIds :
        LET lhs == HeardFor(id)
        IN  IF lhs = <<>> THEN ~DictHas(seen_nodes, id)
            ELSE /\ DictHas(seen_nodes, id)
                 /\ Field(DictGet(seen_nodes, id), "times_seen")
                        = PyInt(1 + ChangesIn(lhs))
                 /\ Field(DictGet(seen_nodes, id), "last_heard")
                        = lhs[Len(lhs)]

\* Alice was given A, A, B and her entry counts 2.
C1_Witness ==
    /\ HeardFor(PyStr(ID_Alice)) = <<PyStr(LH_A), PyStr(LH_A), PyStr(LH_B)>>
    /\ Field(DictGet(seen_nodes, PyStr(ID_Alice)), "times_seen") = PyInt(2)

\* C2: no update_node call, for the same or another identifier, changes the
\* first_seen of an entry that exists.
C2_FirstSeenImmutable ==
    [][\A id \in DictKeys(seen_nodes) :
          /\ DictHas(seen_nodes', id)
          /\ Field(DictGet(seen_nodes', id), "first_seen")
                 = Field(DictGet(seen_nodes, id), "first_seen")]_vars

\* Alice was upserted again at a later tick than her first, and Bob too.
C2_Witness ==
    /\ DictHas(seen_nodes, PyStr(ID_Alice))
    /\ DictHas(seen_nodes, PyStr(ID_Bob))
    /\ Field(DictGet(seen_nodes, PyStr(ID_Alice)), "first_seen") = isoformat(0)
    /\ Field(DictGet(seen_nodes, PyStr(ID_Alice)), "last_seen") = isoformat(2)

\* The sample a user's record carries at tick t (SpecSeries).
ExpectedSample(user, t) ==
    <<t, IF user = PyStr(U_Alice) THEN SampleValue(t) ELSE SampleValue(t + 1)>>

\* C3: no series ever holds more than HISTORY_LENGTH samples, and an append
\* to a series that holds HISTORY_LENGTH leaves exactly HISTORY_LENGTH: the
\* old ones but the oldest, in their order, and then the new sample.
C3_SeriesBoundedFifo ==
    /\ [](\A i \in 1..Len(channel_history.v) :
             Len(channel_history.v[i].v) <= HISTORY_LENGTH)
    /\ [][\A i \in 1..Len(channel_history.v) :
             LET old == channel_history.v[i].v
                 new == series_of(channel_history', channel_history.v[i].k)
             IN  Len(old) = HISTORY_LENGTH =>
                    /\ Len(new) = HISTORY_LENGTH
                    /\ \A j \in 1..(HISTORY_LENGTH - 1) : new[j] = old[j + 1]
                    /\ new[HISTORY_LENGTH]
                           = ExpectedSample(channel_history.v[i].k, now)]_vars

\* A full series whose oldest sample is no longer the first one recorded.
C3_Witness ==
    \E i \in 1..Len(channel_history.v) :
        /\ Len(channel_history.v[i].v) = HISTORY_LENGTH
        /\ channel_history.v[i].k = PyStr(U_Alice)
        /\ channel_history.v[i].v[1][1] >= 1

\* The number of separator-delimited fields of a line.
FieldCount(line) == Cardinality({i \in 1..Len(line) : line[i] = SEP}) + 1

\* C5: parse_table_row returns a record or None for every line, never
\* raises, and returns None for every line of fewer than 15 fields.
C5_ParserTotal ==
    result # Pending =>
        /\ result.t \in {"value", "None"}
        /\ FieldCount(row) < MinColumns => result = None

\* A line of 14 fields was parsed.
C5_Witness == result = None /\ FieldCount(row) = MinColumns - 1

\* C6, as amended: the example row parses to identifier "!abc123", alias
\* "AK", battery "80%" (column 8) and channel_util "42%".
C6_ExampleRowMapping ==
    (row = ExampleLine /\ result # Pending) =>
        /\ result.t = "value"
        /\ Field(result.v, "id") = PyStr(<<"!", "a", "b", "c", "1", "2", "3">>)
        /\ Field(result.v, "aka") = PyStr(<<"A", "K">>)
        /\ Field(result.v, "battery") = PyStr(<<"8", "0", "%">>)
        /\ Field(result.v, "channel_util") = PyStr(<<"4", "2", "%">>)

\* C6, as stated: the same with battery "".
C6_ExampleRowBatteryEmpty ==
    (row = ExampleLine /\ result # Pending) =>
        /\ result.t = "value"
        /\ Field(result.v, "id") = PyStr(<<"!", "a", "b", "c", "1", "2", "3">>)
        /\ Field(result.v, "aka") = PyStr(<<"A", "K">>)
        /\ Field(result.v, "battery") = PyStr(<<>>)
        /\ Field(result.v, "channel_util") = PyStr(<<"4", "2", "%">>)

\* The example row was parsed to a record.
C6_Witness == row = ExampleLine /\ result.t = "value"

\* C7: what load_history reads back from the file save_history wrote has
\* the ledger's identifiers and, for each, its times_seen, first_seen,
\* last_heard and latest_info.
C7_RoundTrip ==
    idx > 0 =>
        LET reloaded == load_history(file)
        IN  /\ reloaded.t = "dict"
            /\ DictKeys(reloaded) = DictKeys(seen_nodes)
            /\ \A id \in DictKeys(seen_nodes) :
                  \A f \in {"times_seen", "first_seen", "last_heard",
                            "latest_info"} :
                      Field(DictGetOrNone(reloaded, id), f)
                          = Field(DictGet(seen_nodes, id), f)

\* A saved ledger of two identifiers, one of them counted twice.
C7_Witness ==
    /\ DictKeys(seen_nodes) = LedgerIds
    /\ Field(DictGet(seen_nodes, PyStr(ID_Alice)), "times_seen") = PyInt(2)
    /\ file = save_history(seen_nodes)

\* C4: main stops only by reading 'q': it never ends because an
\* exception left it, whatever failed in the cycle or in the handler.
C4_LoopExitsOnlyOnQuit ==
    pc \in {"Terminated", "Crashed"} => (pc = "Terminated" /\ key = "q")

\* A backing file whose text decodes to a JSON object.
DecodesToMapping(f) ==
    /\ f.t = "file"
    /\ json_load(f.v).t = "value"
    /\ json_load(f.v).v.t = "dict"

\* C8: load_history returns a mapping whatever the backing file holds, and
\* the empty one when the file is absent or does not decode to a mapping.
C8_LoadYieldsLedger ==
    [][pc = "Start" =>
          /\ seen_nodes'.t = "dict"
          /\ ~DecodesToMapping(file) => seen_nodes' = EmptyDict]_vars

\* C9: a cycle whose collector failed goes on with an empty node list: it
\* changes no series and no ledger entry and reaches the drawing calls.
C9_CollectorFailureIsEmptyCycle ==
    /\ [][(pc = "Polling"
             /\ collector' \in {"exit_nonzero", "launch_failure"})
          => (nodes' = <<>> /\ pc' = "Recording")]_vars
    /\ [][(pc = "Recording" /\ nodes = <<>>)
          => (pc' = "Rendering"
                /\ UNCHANGED <<channel_history, seen_nodes, file>>)]_vars

\* C10: the scale draw_graph computed is at least 1.0 and at least every
\* sample that is a number in the series it was computed from.
C10_ScaleBoundsSamples ==
    frame.drawn =>
        /\ FloatGE(frame.max_util, 1)
        /\ \A i \in 1..Len(channel_history.v) :
              \A j \in 1..Len(channel_history.v[i].v) :
                  LET util == channel_history.v[i].v[j][2]
                  IN  util # NaN => FloatGE(frame.max_util, util)

----------------------------------------------------------------------------
\* The records of the node lists in polled, in the order they were returned.
RECURSIVE Flatten(_)
Flatten(lists) ==
    IF lists = <<>> THEN <<>> ELSE Head(lists) \o Flatten(Tail(lists))

\* The utilization values update_channel_history parses from the records
\* that carry a display name, in order, and the last n items of a sequence.
ParsedUtils(records, user) ==
    LET mine == SelectSeq(records, LAMBDA r :
                    /\ Field(r, "user") = user
                    /\ float(rstrip(Field(r, "channel_util").v, {"%"})).t
                           = "value")
    IN  [i \in 1..Len(mine) |->
            float(rstrip(Field(mine[i], "channel_util").v, {"%"})).v]
LastN(xs, n) == IF Len(xs) <= n THEN xs ELSE SubSeq(xs, Len(xs) - n + 1, Len(xs))
SeriesValues(user) ==
    LET dq == series_of(channel_history, user)
    IN  [j \in 1..Len(dq) |-> dq[j][2]]
IdsOf(records) == {Field(records[i], "id") : i \in 1..Len(records)}
UsersOf(records) == {Field(records[i], "user") : i \in 1..Len(records)}

\* The two cycles of the end-to-end scenario, as run_meshtastic_command
\* returns them.
ScenarioCycles ==
    <<parse_stdout(Table(<<Row_Alice10, Row_Bob90>>)),
      parse_stdout(Table(<<Row_Alice20>>))>>

\* C11: once a cycle's update_channel_history has run, the series of every
\* display name holds the last HISTORY_LENGTH utilization values parsed from
\* the records of that name, in order; at a cycle boundary the ledger holds
\* the identifiers of all records polled in this run and, besides them, only
\* identifiers upserted in earlier runs; and after the scenario's two cycles,
\* the first two of a ledger that started empty, Alice's series is [10, 20],
\* Bob's is [90], Alice's entry counts 2, Bob's counts 1 and the scale drawn
\* is at least 90.
C11_EndToEnd ==
    /\ pc # "Recording" =>
          \A user \in UsersOf(Flatten(polled)) \cup DictKeys(channel_history) :
              SeriesValues(user)
                  = LastN(ParsedUtils(Flatten(polled), user), HISTORY_LENGTH)
    /\ pc \in {"Polling", "Rendering", "Waiting"} =>
          /\ IdsOf(Flatten(polled)) \subseteq DictKeys(seen_nodes)
          /\ DictKeys(seen_nodes) \subseteq
                 IdsOf(Flatten(polled)) \cup {d[1] : d \in durable}
    /\ (polled = ScenarioCycles /\ cycle = 2 /\ pc = "Waiting") =>
          /\ SeriesValues(PyStr(U_Alice)) = <<10, 20>>
          /\ SeriesValues(PyStr(U_Bob)) = <<90>>
          /\ Field(DictGetOrNone(seen_nodes, PyStr(ID_Alice)), "times_seen")
                 = PyInt(2)
          /\ Field(DictGetOrNone(seen_nodes, PyStr(ID_Bob)), "times_seen")
                 = PyInt(1)
          /\ FloatGE(frame.max_util, 90)

----------------------------------------------------------------------------
\* C12: every update_node call leaves, in the entry of the record's
\* identifier, last_seen = the time of the call and latest_info = the
\* record given, whether the entry is new and whether last_heard changed.
C12_EveryCallStamps ==
    [][idx' = idx + 1 =>
          LET node == nodes[idx + 1]
              entry == DictGetOrNone(seen_nodes', Field(node, "id"))
          IN  /\ Field(entry, "last_seen") = isoformat(now)
              /\ Field(entry, "latest_info") = node]_vars

\* Alice was upserted twice with the same last_heard: her entry counts 1
\* and its last_seen is later than its first_seen.
C12_Witness ==
    /\ DictHas(seen_nodes, PyStr(ID_Alice))
    /\ Field(DictGet(seen_nodes, PyStr(ID_Alice)), "times_seen") = PyInt(1)
    /\ Field(DictGet(seen_nodes, PyStr(ID_Alice)), "first_seen") = isoformat(0)
    /\ Field(DictGet(seen_nodes, PyStr(ID_Alice)), "last_seen") = isoformat(1)

----------------------------------------------------------------------------
\* C13: every cycle reaches the wait for a keystroke: the loop starts a
\* new cycle, or ends, from stdscr.getch() only, also in a cycle whose
\* rendering failed or in which another exception was caught.
C13_EveryCycleWaitsForKey ==
    [][(pc \in {"Recording", "Upserting", "Rendering", "Waiting", "Reporting"}
          /\ pc' \in {"Polling", "Terminated", "Crashed"})
       => pc = "Waiting"]_vars

\* An update_node call of this cycle has finished: it returned, or it
\* raised (out of save_history, or before it changed anything).
UpsertFinished ==
    \/ pc \in {"Upserting", "Rendering", "Waiting"} /\ idx > 0
    \/ pc = "Reporting" /\ fault \in {"OSError", "TypeError"}

\* C14: whenever update_node has finished, returned or raised, the backing
\* file holds the text of the in-memory ledger.
C14_WriteThrough ==
    UpsertFinished => file = save_history(seen_nodes)

----------------------------------------------------------------------------
ValuesOf(dq) == [j \in 1..Len(dq) |-> dq[j][2]]
Unparsable(r) ==
    float(rstrip(Field(r, "channel_util").v, {"%"})).t = "raise"

----------------------------------------------------------------------------
\* C16: a record that parse_table_row returns and run_meshtastic_command
\* collects has a non-empty identifier, and upserting it makes no ledger
\* entry keyed by the empty string.
C16_IdentifierNonEmpty ==
    result # Pending =>
        LET collected == collect_nodes(<<row>>)
        IN  \A i \in 1..Len(collected) :
                /\ Field(collected[i], "id") # PyStr(<<>>)
                /\ ~DictHas(update_node(EmptyDict, collected[i], now).v,
                            PyStr(<<>>))

----------------------------------------------------------------------------
\* What parse_table_row makes of the header row of the collector's table.
HeaderRecord == parse_table_row(FormatRow(HeaderCells))

\* C17: no header, border or separator line of the table becomes a record:
\* run_meshtastic_command returns none made from the header row, and the
\* ledger has no entry keyed by the header's ID cell.
C17_NoHeaderRecord ==
    /\ \A i \in 1..Len(nodes) : Return(nodes[i]) # HeaderRecord
    /\ ~DictHas(seen_nodes, PyStr(HeaderCells[2]))

----------------------------------------------------------------------------
\* C18: an identifier for which update_node has returned, in this run or
\* in an earlier one, is in the ledger of every later state of a run, with
\* the first_seen it was given, whatever upserts and restarts came between
\* (a run has its ledger from NodeHistory() on).
C18_EntriesDurable ==
    pc # "Start" =>
        \A d \in durable :
            /\ DictHas(seen_nodes, d[1])
            /\ Field(DictGet(seen_nodes, d[1]), "first_seen") = d[2]

----------------------------------------------------------------------------
\* C19: from one frame to the next of a run, every display name of the
\* legend is still in the legend, with the same color and the same legend
\* row; its series is never removed from channel_history.
C19_ColorStable ==
    [][/\ DictKeys(channel_history) \subseteq DictKeys(channel_history')
       /\ frame.drawn =>
             \A i \in 1..Len(frame.legend) :
                 \E j \in 1..Len(frame'.legend) :
                     frame'.legend[j] = frame.legend[i]]_vars

\* A frame with two names in its legend, the second of which got its
\* series after frames had been drawn with the first alone.
C19_Witness ==
    /\ frame.drawn
    /\ Len(frame.legend) = 2
    /\ frame.legend[1].user = PyStr(U_Alice)
    /\ frame.legend[1].color = 1
    /\ frame.legend[2].color = 2
    /\ Len(series_of(channel_history, PyStr(U_Bob))) + 2
           <= Len(series_of(channel_history, PyStr(U_Alice)))

----------------------------------------------------------------------------
\* C20: parse_table_row returns a record exactly for the lines of 16 or
\* more fields; a line of exactly 15 passes the length test and yields None.
C20_RecordIffSixteenFields ==
    result # Pending =>
        /\ result.t = "value" <=> FieldCount(row) >= MinColumns + 1
        /\ result.t # "value" => result = None

\* A line of exactly 15 fields was parsed, to None.
C20_Witness ==
    /\ FieldCount(row) = MinColumns
    /\ result = None

=============================================================================
